---- MODULE Spec2Model ----
(***************************************************************************)
(* The Chase-Lev deque crew of src/crew/deque.rs: a controller (Deque)     *)
(* that hires workers, gives jobs and stops the crew, and the workers'     *)
(* run loops with their Hot / Warm / Cold load.                            *)
(*                                                                         *)
(* The deque itself is crossbeam's chase_lev: push appends at the bottom,  *)
(* steal reads top, and takes the item there by a compare-and-swap of top; *)
(* a steal that finds top >= bottom is Empty, one whose compare-and-swap   *)
(* loses to another stealer is Abort.                                      *)
(***************************************************************************)
EXTENDS Naturals, Sequences, FiniteSets

\* Bounds of the model.
MaxNumWorkers == 2    \* the largest num_workers
MaxJobs == 2          \* calls of give
MaxThreshold == 2     \* the largest retry_threshold
MaxStopCalls == 1     \* calls of stop

\* The ids of the workers that can be hired: two threads, the fewest that contend.
Ids == {0, 1}
Jobs == 1 .. MaxJobs

Stop == [kind |-> "Stop", job |-> 0]
Work(j) == [kind |-> "Work", job |-> j]

VARIABLES
    options,     \* Options: retry_threshold, num_workers (cold_interval is a duration only)
    nightly,     \* whether the crate is built with feature "nightly"
    next_id,     \* Deque.next_id
    log,         \* every message pushed by the sender, in push order (bottom = Len(log))
    top,         \* the deque's top: how many messages were stolen
    stopCalls,   \* calls of stop so far
    pc,          \* where each worker is: "unhired", "hired", "steal", "cas", "does",
                 \*   "yield", "sleep", "done" (broke on Stop), "dead" (unwound by a panic)
    load,        \* DequeWorker.load
    retries,     \* DequeWorker.retries
    snap,        \* the top a worker read in the steal it is in (0 outside a steal)
    job,         \* the job a worker holds in does (0: none)
    streak,      \* failed steals (Abort, Empty) in a row since the worker was last Hot,
                 \*   counted up to retry_threshold + 1
    nstops,      \* Stop messages each worker stole
    obtained,    \* per job, how many steals returned it
    performed,   \* per job, how many times perform was called on it
    errlog       \* how many error! records ("job panicked") were logged

vars == <<options, nightly, next_id, log, top, stopCalls, pc, load, retries,
          snap, job, streak, nstops, obtained, performed, errlog>>

ctlVars == <<next_id, log, stopCalls>>
cfgVars == <<options, nightly>>

----------------------------------------------------------------------------
\* DequeWorker's state machine, on the pair [load, retries].

\* faulty variant: the new load mistyped
become_warm_cold(s) == [load |-> "Cold", retries |-> 0]

\* faulty variant: retries is not reset
become_warm_keep(s) == [s EXCEPT !.load = "Warm"]

become_warm(s) == [load |-> "Warm", retries |-> 0]

\* faulty variant: Cold only once retries has passed the threshold
become_cooler_late(s, t) ==
    LET r == s.retries + 1
    IN  [load |-> IF r > t THEN "Cold" ELSE s.load, retries |-> r]

become_cooler(s, t) ==
    LET r == s.retries + 1
    IN  [load |-> IF r >= t THEN "Cold" ELSE s.load, retries |-> r]

\* faulty variant: the arm of a Cold worker does nothing, as in nothing
missed_stays_cold(s, t) ==
    IF t = 0 THEN [s EXCEPT !.load = "Cold"]
    ELSE CASE s.load = "Hot" -> become_warm(s)
           [] s.load = "Warm" -> become_cooler(s, t)
           [] s.load = "Cold" -> s

\* faulty variant: no early return for a threshold of 0
missed_ramps(s, t) ==
    CASE s.load = "Hot" -> become_warm(s)
      [] s.load = "Warm" -> become_cooler(s, t)
      [] s.load = "Cold" -> [s EXCEPT !.load = "Hot"]

\* faulty variant: a Cold worker's reheating resets retries, as become_warm does
missed_resets(s, t) ==
    IF t = 0 THEN [s EXCEPT !.load = "Cold"]
    ELSE CASE s.load = "Hot" -> become_warm(s)
           [] s.load = "Warm" -> become_cooler(s, t)
           [] s.load = "Cold" -> [load |-> "Hot", retries |-> 0]

missed(s, t) ==
    IF t = 0 THEN [s EXCEPT !.load = "Cold"]
    ELSE CASE s.load = "Hot" -> become_warm(s)
           [] s.load = "Warm" -> become_cooler(s, t)
           [] s.load = "Cold" -> [s EXCEPT !.load = "Hot"]

\* faulty variant: a Warm worker is not cooled by an Empty steal
nothing_keeps_warm(s, t) ==
    IF t = 0 THEN [s EXCEPT !.load = "Cold"]
    ELSE CASE s.load = "Hot" -> become_warm(s)
           [] s.load = "Warm" -> s
           [] s.load = "Cold" -> s

nothing(s, t) ==
    IF t = 0 THEN [s EXCEPT !.load = "Cold"]
    ELSE CASE s.load = "Hot" -> become_warm(s)
           [] s.load = "Warm" -> become_cooler(s, t)
           [] s.load = "Cold" -> s

\* faulty variant: the load is left as it was
does_keeps_load(s) == s

\* does, once perform has returned or its panic was recovered
does(s) == [s EXCEPT !.load = "Hot"]

\* faulty variant: a Cold worker yields instead of sleeping
wait_never_sleeps(l) ==
    CASE l = "Hot" -> "steal"
      [] l = "Warm" -> "yield"
      [] l = "Cold" -> "yield"

\* wait: where the worker is after the match: Hot goes straight on to the next steal,
\* Warm is in yield_now, Cold is in sleep(cold_interval).
wait(l) ==
    CASE l = "Hot" -> "steal"
      [] l = "Warm" -> "yield"
      [] l = "Cold" -> "sleep"

\* The failures in a row after one more, counted from the last time the worker was Hot.
Streak(w, s2) ==
    IF s2.load = "Hot" THEN 0
    ELSE IF streak[w] > options.retry_threshold THEN streak[w]
    ELSE streak[w] + 1

St(w) == [load |-> load[w], retries |-> retries[w]]

----------------------------------------------------------------------------
\* Deque::new, with the options in Opts
New(Opts) ==
    /\ options \in Opts
    /\ nightly \in BOOLEAN
    /\ next_id = 0
    /\ log = << >>
    /\ top = 0
    /\ stopCalls = 0
    /\ pc = [w \in Ids |-> "unhired"]
    /\ load = [w \in Ids |-> "Hot"]
    /\ retries = [w \in Ids |-> 0]
    /\ snap = [w \in Ids |-> 0]
    /\ job = [w \in Ids |-> 0]
    /\ streak = [w \in Ids |-> 0]
    /\ nstops = [w \in Ids |-> 0]
    /\ obtained = [j \in Jobs |-> 0]
    /\ performed = [j \in Jobs |-> 0]
    /\ errlog = 0

Init == New([retry_threshold : 0 .. MaxThreshold, num_workers : 1 .. MaxNumWorkers])

NumWork(q) == Cardinality({i \in 1 .. Len(q) : q[i].kind = "Work"})

\* faulty variant: next_id is not incremented
hire_same_id ==
    /\ next_id \in Ids
    /\ pc' = [pc EXCEPT ![next_id] = "hired"]
    /\ load' = [load EXCEPT ![next_id] = "Hot"]
    /\ retries' = [retries EXCEPT ![next_id] = 0]
    /\ UNCHANGED <<options, nightly, next_id, log, top, stopCalls, snap, job, streak,
                   nstops, obtained, performed, errlog>>

\* Deque::hire
hire ==
    /\ next_id \in Ids
    /\ next_id' = next_id + 1
    /\ pc' = [pc EXCEPT ![next_id] = "hired"]
    /\ load' = [load EXCEPT ![next_id] = "Hot"]
    /\ retries' = [retries EXCEPT ![next_id] = 0]
    /\ UNCHANGED <<options, nightly, log, top, stopCalls, snap, job, streak,
                   nstops, obtained, performed, errlog>>

\* faulty variant: the message is pushed twice
give_twice ==
    /\ NumWork(log) < MaxJobs
    /\ log' = log \o <<Work(NumWork(log) + 1), Work(NumWork(log) + 1)>>
    /\ UNCHANGED <<options, nightly, next_id, top, stopCalls, pc, load, retries,
                   snap, job, streak, nstops, obtained, performed, errlog>>

\* Deque::give: the job of the i-th call is job i
give ==
    /\ NumWork(log) < MaxJobs
    /\ log' = Append(log, Work(NumWork(log) + 1))
    /\ UNCHANGED <<options, nightly, next_id, top, stopCalls, pc, load, retries,
                   snap, job, streak, nstops, obtained, performed, errlog>>

\* n Stop messages
Stops(n) == [i \in 1 .. n |-> Stop]

\* faulty variant: one Stop for each worker hired, not for each of num_workers
stop_hired ==
    /\ stopCalls < MaxStopCalls
    /\ stopCalls' = stopCalls + 1
    /\ log' = log \o Stops(next_id)
    /\ UNCHANGED <<options, nightly, next_id, top, pc, load, retries,
                   snap, job, streak, nstops, obtained, performed, errlog>>

\* faulty variant: the loop runs one turn short
stop_short ==
    /\ stopCalls < MaxStopCalls
    /\ stopCalls' = stopCalls + 1
    /\ log' = log \o Stops(options.num_workers - 1)
    /\ UNCHANGED <<options, nightly, next_id, top, pc, load, retries,
                   snap, job, streak, nstops, obtained, performed, errlog>>

\* Deque::stop: num_workers pushes of Message::Stop
stop ==
    /\ stopCalls < MaxStopCalls
    /\ stopCalls' = stopCalls + 1
    /\ log' = log \o Stops(options.num_workers)
    /\ UNCHANGED <<options, nightly, next_id, top, pc, load, retries,
                   snap, job, streak, nstops, obtained, performed, errlog>>

----------------------------------------------------------------------------
\* The worker's side: DequeWorker::run, one action per step of its loop.

\* the caller starts run on the worker it hired
run(w) ==
    /\ pc[w] = "hired"
    /\ pc' = [pc EXCEPT ![w] = "steal"]
    /\ UNCHANGED <<cfgVars, ctlVars, top, load, retries, snap, job, streak, nstops,
                   obtained, performed, errlog>>

\* the state machine's step after a failed steal, and the wait that follows it
Cool(w, s2) ==
    /\ load' = [load EXCEPT ![w] = s2.load]
    /\ retries' = [retries EXCEPT ![w] = s2.retries]
    /\ streak' = [streak EXCEPT ![w] = Streak(w, s2)]
    /\ pc' = [pc EXCEPT ![w] = wait(s2.load)]

\* steal reads top and bottom and finds the deque empty: Empty => self.nothing()
run_empty(w) ==
    /\ pc[w] = "steal"
    /\ top >= Len(log)
    /\ Cool(w, nothing(St(w), options.retry_threshold))
    /\ UNCHANGED <<cfgVars, ctlVars, top, snap, job, nstops, obtained, performed, errlog>>

\* steal reads top and bottom and finds an item at top
steal_read(w) ==
    /\ pc[w] = "steal"
    /\ top < Len(log)
    /\ snap' = [snap EXCEPT ![w] = top]
    /\ pc' = [pc EXCEPT ![w] = "cas"]
    /\ UNCHANGED <<cfgVars, ctlVars, top, load, retries, job, streak, nstops,
                   obtained, performed, errlog>>

\* whether the steal's compare-and-swap of top succeeds
Wins(w) == top = snap[w]

\* the compare-and-swap fails: Abort => self.missed()
run_abort(w) ==
    /\ pc[w] = "cas"
    /\ ~Wins(w)
    /\ Cool(w, missed(St(w), options.retry_threshold))
    /\ snap' = [snap EXCEPT ![w] = 0]
    /\ UNCHANGED <<cfgVars, ctlVars, top, job, nstops, obtained, performed, errlog>>

\* faulty variant: the Work arm drops the job instead of calling does
run_work_drops(w) ==
    /\ pc[w] = "cas"
    /\ Wins(w)
    /\ log[top + 1].kind = "Work"
    /\ top' = top + 1
    /\ obtained' = [obtained EXCEPT ![log[top + 1].job] = @ + 1]
    /\ snap' = [snap EXCEPT ![w] = 0]
    /\ pc' = [pc EXCEPT ![w] = wait(load[w])]
    /\ UNCHANGED <<cfgVars, ctlVars, load, retries, job, streak, nstops, performed, errlog>>

\* the compare-and-swap succeeds on a Work message: the worker has the job
run_work(w) ==
    /\ pc[w] = "cas"
    /\ Wins(w)
    /\ log[top + 1].kind = "Work"
    /\ top' = top + 1
    /\ job' = [job EXCEPT ![w] = log[top + 1].job]
    /\ obtained' = [obtained EXCEPT ![job'[w]] = @ + 1]
    /\ pc' = [pc EXCEPT ![w] = "does"]
    /\ snap' = [snap EXCEPT ![w] = 0]
    /\ UNCHANGED <<cfgVars, ctlVars, load, retries, streak, nstops, performed, errlog>>

\* faulty variant: the worker takes the newest message, as the owner's pop would
run_stop_last(w) ==
    /\ pc[w] = "cas"
    /\ Wins(w)
    /\ log[Len(log)].kind = "Stop"
    /\ log' = SubSeq(log, 1, Len(log) - 1)
    /\ nstops' = [nstops EXCEPT ![w] = @ + 1]
    /\ pc' = [pc EXCEPT ![w] = "done"]
    /\ snap' = [snap EXCEPT ![w] = 0]
    /\ UNCHANGED <<cfgVars, next_id, stopCalls, top, load, retries, job, streak,
                   obtained, performed, errlog>>

\* faulty variant: the Stop arm does not break out of the loop
run_stop_continues(w) ==
    /\ pc[w] = "cas"
    /\ Wins(w)
    /\ log[top + 1].kind = "Stop"
    /\ top' = top + 1
    /\ nstops' = [nstops EXCEPT ![w] = @ + 1]
    /\ pc' = [pc EXCEPT ![w] = "steal"]
    /\ snap' = [snap EXCEPT ![w] = 0]
    /\ UNCHANGED <<cfgVars, ctlVars, load, retries, job, streak, obtained,
                   performed, errlog>>

\* the compare-and-swap succeeds on a Stop message: Data(Message::Stop) => break
run_stop(w) ==
    /\ pc[w] = "cas"
    /\ Wins(w)
    /\ log[top + 1].kind = "Stop"
    /\ top' = top + 1
    /\ nstops' = [nstops EXCEPT ![w] = @ + 1]
    /\ pc' = [pc EXCEPT ![w] = "done"]
    /\ snap' = [snap EXCEPT ![w] = 0]
    /\ UNCHANGED <<cfgVars, ctlVars, load, retries, job, streak, obtained,
                   performed, errlog>>

\* faulty variant: perform is called without recover
Unwinds_always(panics) == panics

\* whether a panic of perform unwinds out of does: recover catches it under "nightly"
Unwinds(panics) == panics /\ ~nightly

\* does, with a perform that returns
does_ok(w) ==
    /\ pc[w] = "does"
    /\ performed' = [performed EXCEPT ![job[w]] = @ + 1]
    /\ job' = [job EXCEPT ![w] = 0]
    /\ load' = [load EXCEPT ![w] = does(St(w)).load]
    /\ retries' = [retries EXCEPT ![w] = does(St(w)).retries]
    /\ streak' = [streak EXCEPT ![w] = 0]
    /\ pc' = [pc EXCEPT ![w] = wait(load'[w])]
    /\ UNCHANGED <<cfgVars, ctlVars, top, snap, nstops, obtained, errlog>>

\* does, with a perform that panics and recover catching it: the panic is logged
does_recovered(w) ==
    /\ pc[w] = "does"
    /\ nightly
    /\ ~Unwinds(TRUE)
    /\ performed' = [performed EXCEPT ![job[w]] = @ + 1]
    /\ errlog' = errlog + 1
    /\ job' = [job EXCEPT ![w] = 0]
    /\ load' = [load EXCEPT ![w] = does(St(w)).load]
    /\ retries' = [retries EXCEPT ![w] = does(St(w)).retries]
    /\ streak' = [streak EXCEPT ![w] = 0]
    /\ pc' = [pc EXCEPT ![w] = wait(load'[w])]
    /\ UNCHANGED <<cfgVars, ctlVars, top, snap, nstops, obtained>>

\* faulty variant: the load is set before perform is called
does_panicked_heats(w) ==
    /\ pc[w] = "does"
    /\ Unwinds(TRUE)
    /\ performed' = [performed EXCEPT ![job[w]] = @ + 1]
    /\ job' = [job EXCEPT ![w] = 0]
    /\ load' = [load EXCEPT ![w] = "Hot"]
    /\ pc' = [pc EXCEPT ![w] = "dead"]
    /\ UNCHANGED <<cfgVars, ctlVars, top, retries, snap, streak, nstops,
                   obtained, errlog>>

\* does, with a perform that panics and nothing catching it: the thread unwinds
does_panicked(w) ==
    /\ pc[w] = "does"
    /\ Unwinds(TRUE)
    /\ performed' = [performed EXCEPT ![job[w]] = @ + 1]
    /\ job' = [job EXCEPT ![w] = 0]
    /\ pc' = [pc EXCEPT ![w] = "dead"]
    /\ UNCHANGED <<cfgVars, ctlVars, top, load, retries, snap, streak, nstops,
                   obtained, errlog>>

\* yield_now returns
yield_now(w) ==
    /\ pc[w] = "yield"
    /\ pc' = [pc EXCEPT ![w] = "steal"]
    /\ UNCHANGED <<cfgVars, ctlVars, top, load, retries, snap, job, streak, nstops,
                   obtained, performed, errlog>>

\* sleep(cold_interval) returns
sleep(w) ==
    /\ pc[w] = "sleep"
    /\ pc' = [pc EXCEPT ![w] = "steal"]
    /\ UNCHANGED <<cfgVars, ctlVars, top, load, retries, snap, job, streak, nstops,
                   obtained, performed, errlog>>

Worker(w) ==
    \/ run_empty(w)
    \/ steal_read(w)
    \/ run_abort(w)
    \/ run_work(w)
    \/ run_stop(w)
    \/ does_ok(w)
    \/ does_recovered(w)
    \/ does_panicked(w)
    \/ yield_now(w)
    \/ sleep(w)

Controller == hire \/ give \/ stop

Next ==
    \/ Controller
    \/ \E w \in Ids : run(w)
    \/ \E w \in Ids : Worker(w)

Spec == Init /\ [][Next]_vars

\* The threads that run a worker's loop are scheduled fairly; the caller's calls of
\* hire, give, stop and run are not forced. The retry thresholds are 0 (no ramp) and
\* 1 (the shortest ramp): the threshold only changes how long a worker waits between
\* steals.
FairInit == New([retry_threshold : {0, 1}, num_workers : 1 .. MaxNumWorkers])

FairSpec ==
    /\ FairInit
    /\ [][Next]_vars
    /\ \A w \in Ids : WF_vars(Worker(w))

\* a pool configured for one worker, with every threshold
IdleInit == New([retry_threshold : 0 .. MaxThreshold, num_workers : {1}])

IdleSpec == IdleInit /\ [][Next]_vars /\ \A w \in Ids : WF_vars(Worker(w))

----------------------------------------------------------------------------
\* What the properties below speak of.

Threshold == options.retry_threshold

\* the worker's loop is running
Live(w) == pc[w] \in {"steal", "cas", "does", "yield", "sleep"}

Given(j) == \E i \in 1 .. Len(log) : log[i] = Work(j)

\* what a worker owns
Local(w) == <<pc[w], load[w], retries[w], snap[w], job[w], streak[w], nstops[w]>>

\* this step is worker w's, and its steal returned Abort / Empty / a job that was
\* then performed to the end of does
Aborts(w) == pc[w] = "cas" /\ ~Wins(w) /\ Local(w)' # Local(w)
Empties(w) == pc[w] = "steal" /\ top >= Len(log) /\ Local(w)' # Local(w)
Fails(w) == Aborts(w) \/ Empties(w)
Did(w) == pc[w] = "does" /\ pc'[w] \notin {"does", "dead"}

----------------------------------------------------------------------------
\* C1. No duplication: whatever the interleaving of give, stop and the workers'
\* steals, a job pushed by give is returned by at most one steal, is held by at most
\* one worker, and perform is called on it at most once.
C1_NoDuplication ==
    \A j \in Jobs :
        /\ obtained[j] <= 1
        /\ performed[j] <= obtained[j]
        /\ Cardinality({w \in Ids : job[w] = j}) <= 1

\* both workers ran, one of them lost a race, and every job was performed once
C1_Witness ==
    /\ \A j \in Jobs : performed[j] = 1
    /\ \A w \in Ids : Live(w)
    /\ \E w \in Ids : load[w] = "Warm"

\* C2. No loss: under fair scheduling of the workers, from any state in which job j
\* was given and some worker's loop is running, j is eventually performed, unless no
\* worker's loop is left running (each has broken on Stop or was unwound by a panic).
C2_NoLoss ==
    \A j \in Jobs :
        (Given(j) /\ \E w \in Ids : Live(w))
            ~> (performed[j] >= 1 \/ ~ \E w \in Ids : Live(w))

\* every job was performed and a worker has gone to sleep since
C2_Witness ==
    /\ \A j \in Jobs : Given(j) /\ performed[j] = 1
    /\ \E w \in Ids : pc[w] = "sleep"

\* a worker whose loop is running or has broken on Stop
RanLoop(w) == Live(w) \/ pc[w] = "done"

NoWorkAfterStop ==
    \A i, j \in 1 .. Len(log) : (i < j /\ log[i].kind = "Stop") => log[j].kind = "Stop"

\* num_workers = k, exactly k workers whose loop is running or has broken on Stop,
\* stop called once, and no job given after it
C3_Setting ==
    /\ stopCalls = 1
    /\ Cardinality({w \in Ids : RanLoop(w)}) = options.num_workers
    /\ NoWorkAfterStop

\* all k loops have ended, each on one Stop; n + k messages were stolen; the queue is
\* empty
C3_Finished ==
    /\ \A w \in Ids : RanLoop(w) => (pc[w] = "done" /\ nstops[w] = 1)
    /\ top = NumWork(log) + options.num_workers
    /\ top = Len(log)

\* C3. Shutdown: with num_workers = k and exactly k live workers, once n jobs were
\* given and stop was then called, with nothing given after it, eventually all k loops
\* have ended, each on exactly one Stop, n + k messages were stolen in all and the
\* queue is empty (unless the setting is left: a further give, stop or run, or a worker
\* unwound by a panic); and no worker ever steals two Stops.
C3_Shutdown ==
    /\ [](\A w \in Ids : nstops[w] <= 1)
    /\ (C3_Setting ~> (C3_Finished \/ ~C3_Setting))

\* two workers, MaxJobs jobs and num_workers = 2: both loops ended, the queue is empty
C3_Witness ==
    /\ C3_Setting
    /\ C3_Finished
    /\ options.num_workers = Cardinality(Ids)
    /\ NumWork(log) = MaxJobs

C5_Monotone ==
    [][\A w \in Ids :
          /\ (Threshold > 0 /\ load[w] # "Cold" /\ load'[w] = "Cold") =>
                (Fails(w) /\ load[w] = "Warm" /\ streak'[w] >= Threshold)
          /\ (Threshold = 0 /\ load[w] # "Cold" /\ Fails(w)) => load'[w] = "Cold"]_vars

C5_Witness ==
    /\ Threshold = MaxThreshold
    /\ \E w \in Ids : load[w] = "Cold" /\ streak[w] = MaxThreshold + 1 /\ pc[w] = "sleep"

\* C6. A steal that yields a job, once does has run to its end, leaves the worker Hot,
\* whatever its load was and whatever the retry_threshold, with retries as it was, and
\* on its way to the next steal.
C6_WorkHeats ==
    [][\A w \in Ids :
          Did(w) => /\ load'[w] = "Hot"
                    /\ retries'[w] = retries[w]
                    /\ pc'[w] = "steal"]_vars

\* a worker that stole a job while Warm with retries = 1
C6_Witness ==
    /\ Threshold = 2
    /\ \E j \in Jobs : performed[j] = 1
    /\ \E w \in Ids : load[w] = "Hot" /\ retries[w] = 1

\* C7. Isolation (feature "nightly"): no worker is ever unwound by a panic; and the
\* step in which a panic of perform is caught and logged leaves that worker in its loop,
\* Hot, at its next steal, and changes no other worker and nothing of the queue.
C7_Isolation ==
    /\ [](nightly => \A w \in Ids : pc[w] # "dead")
    /\ [][errlog' # errlog =>
            /\ nightly
            /\ errlog' = errlog + 1
            /\ log' = log
            /\ top' = top
            /\ \E w \in Ids :
                  /\ pc[w] = "does"
                  /\ pc'[w] = "steal"
                  /\ load'[w] = "Hot"
                  /\ \A v \in Ids \ {w} : Local(v)' = Local(v)]_vars

\* the one worker hired performed job 1, whose panic was logged, and now holds job 2
C7_Witness ==
    /\ nightly
    /\ next_id = 1
    /\ errlog = 1
    /\ performed[1] = 1
    /\ job[0] = 2

\* this step ends an iteration of worker w's loop other than on Stop
EndsIteration(w) ==
    /\ pc[w] \in {"steal", "cas", "does"}
    /\ pc'[w] \notin {"cas", "does", "done", "dead"}
    /\ Local(w)' # Local(w)

\* C8. Wait policy: a step that ends an iteration other than on Stop leaves the worker
\* where its new load says: Hot at the next steal, with neither yield nor sleep, Warm
\* in yield_now, Cold in sleep; a worker is in yield_now only while Warm and in sleep
\* only while Cold, and a worker that is not Hot comes to its next steal only out of
\* yield_now (Warm) or sleep (Cold).
C8_WaitPolicy ==
    /\ [](\A w \in Ids : /\ pc[w] = "yield" => load[w] = "Warm"
                         /\ pc[w] = "sleep" => load[w] = "Cold")
    /\ [][\A w \in Ids :
            /\ EndsIteration(w) =>
                  /\ load'[w] = "Hot" => pc'[w] = "steal"
                  /\ load'[w] = "Warm" => pc'[w] = "yield"
                  /\ load'[w] = "Cold" => pc'[w] = "sleep"
            /\ (pc'[w] = "steal" /\ pc[w] # "steal" /\ load'[w] # "Hot") =>
                  \/ pc[w] = "yield" /\ load[w] = "Warm"
                  \/ pc[w] = "sleep" /\ load[w] = "Cold"]_vars

\* a Cold worker in its next steal, after its sleep
C8_Witness == \E w \in Ids : load[w] = "Cold" /\ pc[w] = "cas"

\* C9. Ramp trace, retry_threshold = t > 0, counting a worker's failed steals in a row
\* since it was last Hot: after the 1st it is Warm with retries = 0, after the j-th,
\* 2 <= j <= t, Warm with retries = j - 1, after the (t+1)-th (and later ones) Cold
\* with retries = t; and an Abort then makes it Hot with retries still t.
C9_Ramp ==
    /\ [](Threshold > 0 =>
            \A w \in Ids :
                /\ streak[w] = 1 => (load[w] = "Warm" /\ retries[w] = 0)
                /\ (2 <= streak[w] /\ streak[w] <= Threshold) =>
                      (load[w] = "Warm" /\ retries[w] = streak[w] - 1)
                /\ streak[w] = Threshold + 1 =>
                      (load[w] = "Cold" /\ retries[w] = Threshold))
    /\ [][\A w \in Ids :
            (Threshold > 0 /\ load[w] = "Cold" /\ Aborts(w)) =>
                (load'[w] = "Hot" /\ retries'[w] = Threshold)]_vars

\* a worker that ramped down with the largest threshold and was reheated by an Abort
C9_Witness ==
    /\ Threshold = MaxThreshold
    /\ \A j \in Jobs : obtained[j] = 0
    /\ \E w \in Ids : load[w] = "Hot" /\ retries[w] = MaxThreshold /\ pc[w] = "steal"

\* C10. With retry_threshold = 0 a failed steal of a worker that is not Cold makes it
\* Cold in that iteration, and no worker is ever Warm (or in yield_now).
C10_NoRamp ==
    /\ [](Threshold = 0 =>
            \A w \in Ids : load[w] \in {"Hot", "Cold"} /\ pc[w] # "yield")
    /\ [][\A w \in Ids :
            (Threshold = 0 /\ load[w] # "Cold" /\ Fails(w)) =>
                (load'[w] = "Cold" /\ pc'[w] = "sleep")]_vars

\* a worker that went Cold on its first failed steal, and a message in the queue
C10_Witness ==
    /\ Threshold = 0
    /\ top < Len(log)
    /\ \E w \in Ids : load[w] = "Cold" /\ pc[w] = "sleep" /\ streak[w] = 1

----------------------------------------------------------------------------
\* the workers that were hired
Hired == {w \in Ids : pc[w] # "unhired"}

\* C11. stop pushes exactly num_workers Stop messages onto the tail of the queue,
\* whatever the number of workers hired or running and whatever the queue holds; it
\* takes nothing from the queue, waits for no worker, and changes no worker (load,
\* retries, position) and not next_id.
C11_StopPushes ==
    [][stopCalls' # stopCalls =>
          /\ stopCalls' = stopCalls + 1
          /\ Len(log') = Len(log) + options.num_workers
          /\ \A i \in 1 .. Len(log) : log'[i] = log[i]
          /\ \A i \in (Len(log) + 1) .. Len(log') : log'[i].kind = "Stop"
          /\ top' = top
          /\ next_id' = next_id
          /\ \A w \in Ids : Local(w)' = Local(w)]_vars

\* stop was called with no worker hired and a job in the queue: the queue holds the job,
\* then num_workers Stops
C11_Witness ==
    /\ stopCalls = 1
    /\ next_id = 0
    /\ top = 0
    /\ NumWork(log) = 1
    /\ Len(log) = 1 + options.num_workers
    /\ log[1].kind = "Work"

\* C12. hire hands out the ids 0, 1, 2, ... in call order: the workers hired are those
\* with an id below next_id, so next_id is their number and no id is handed out twice;
\* a call of hire raises next_id by one, makes the worker with the id next_id had, which
\* was not hired before, Hot with retries = 0, pushes and steals nothing and changes no
\* other worker; and no other step changes next_id.
C12_Hire ==
    /\ [](/\ Hired = {w \in Ids : w < next_id}
          /\ Cardinality(Hired) = next_id
          /\ \A w \in Ids : pc[w] \in {"unhired", "hired"} =>
                              (load[w] = "Hot" /\ retries[w] = 0))
    /\ [][(next_id' # next_id \/ Hired' # Hired) =>
            /\ next_id' = next_id + 1
            /\ Hired' = Hired \cup {next_id}
            /\ next_id \notin Hired
            /\ pc'[next_id] = "hired"
            /\ load'[next_id] = "Hot"
            /\ retries'[next_id] = 0
            /\ log' = log
            /\ top' = top
            /\ stopCalls' = stopCalls
            /\ \A v \in Ids \ {next_id} : Local(v)' = Local(v)]_vars

\* the second worker was hired after a give, a stop and the first worker's end
C12_Witness ==
    /\ next_id = 2
    /\ pc[0] = "done"
    /\ pc[1] = "hired"
    /\ NumWork(log) >= 1

\* C13. The retry counter: a failed steal (Abort or Empty) of a Hot worker with
\* retry_threshold > 0 sets it to 0, as the worker becomes Warm; a failed steal of a
\* Warm worker adds exactly 1; and every other step leaves it as it was (a job stolen
\* and performed, a Cold worker's Abort or Empty, any step with retry_threshold = 0,
\* yield, sleep, and the steps of the controller and of other workers).
C13_Retries ==
    [][\A w \in Ids :
          /\ (Fails(w) /\ Threshold > 0 /\ load[w] = "Hot") =>
                (retries'[w] = 0 /\ load'[w] = "Warm")
          /\ (Fails(w) /\ load[w] = "Warm") => retries'[w] = retries[w] + 1
          /\ ~(Fails(w) /\ Threshold > 0 /\ load[w] \in {"Hot", "Warm"}) =>
                retries'[w] = retries[w]]_vars

\* no job was stolen; a worker went Warm on a failed steal and its next failed steal
\* added 1 to its retries, while the other worker broke on Stop
C13_Witness ==
    /\ Threshold = 2
    /\ \A j \in Jobs : obtained[j] = 0
    /\ \E w \in Ids : load[w] = "Warm" /\ retries[w] = 1 /\ nstops[1 - w] = 1

\* C14. Propagating strategy (feature "nightly" off): a worker is unwound only by a
\* panic of the job it holds in does, without "nightly"; the step leaves its load and
\* retries as they were (the load is not set to Hot), logs nothing, and changes neither
\* the queue nor next_id (the worker is not replaced) nor any other worker; and from
\* then on the worker takes no step: it never steals again.
C14_Propagates ==
    [][\A w \in Ids :
          /\ (pc'[w] = "dead" /\ pc[w] # "dead") =>
                /\ ~nightly
                /\ pc[w] = "does"
                /\ load'[w] = load[w]
                /\ retries'[w] = retries[w]
                /\ errlog' = errlog
                /\ log' = log
                /\ top' = top
                /\ next_id' = next_id
                /\ \A v \in Ids \ {w} : Local(v)' = Local(v)
          /\ pc[w] = "dead" => Local(w)' = Local(w)]_vars

\* worker 0 was unwound while Cold by job 1's panic, and worker 1 performed job 2 after
\* that and runs on
C14_Witness ==
    /\ ~nightly
    /\ pc[0] = "dead"
    /\ load[0] = "Cold"
    /\ performed[1] = 1
    /\ performed[2] = 1
    /\ pc[1] = "sleep"

\* stop was called once and nothing was given after it
StoppedOnce == stopCalls = 1 /\ NoWorkAfterStop

NumRan == Cardinality({w \in Ids : RanLoop(w)})
NumDone == Cardinality({w \in Ids : pc[w] = "done"})

\* h workers' loops are running or have broken on Stop, with h # num_workers
Mismatch(h) == StoppedOnce /\ NumRan = h /\ h # options.num_workers

\* the Stop messages in the queue
QueuedStops == Cardinality({i \in (top + 1) .. Len(log) : log[i].kind = "Stop"})

\* h > k: k loops have ended and the queue is empty; h < k: all h loops have ended and
\* k - h Stop messages are left in the queue
Settled(h) ==
    IF h > options.num_workers
    THEN NumDone = options.num_workers /\ top = Len(log)
    ELSE NumDone = h /\ QueuedStops = options.num_workers - h

\* C15. Worker-count mismatch: with h workers running, stop called once for
\* num_workers = k # h and nothing given after it, eventually (unless a worker is
\* started or unwound, or give or stop is called again) for h > k exactly k workers have
\* terminated and for h < k all h have, with k - h Stops left in the queue; that stays
\* so for as long as the setting does: the other h - k workers never terminate, the
\* k - h Stops are never stolen; and each worker still running comes to a steal attempt
\* again and again.
C15_Mismatch ==
    /\ \A h \in 0 .. Cardinality(Ids) :
          Mismatch(h) ~> (Settled(h) \/ ~Mismatch(h))
    /\ [][\A h \in 0 .. Cardinality(Ids) :
            (Mismatch(h) /\ Settled(h) /\ Mismatch(h)') => Settled(h)']_vars
    /\ \A w \in Ids :
          (StoppedOnce /\ Live(w)) ~> (pc[w] = "steal" \/ ~(StoppedOnce /\ Live(w)))

\* two workers ran for num_workers = 1: one has broken on the Stop, the other performed
\* a job and sleeps by an empty queue
C15_Witness ==
    /\ Mismatch(2)
    /\ Settled(2)
    /\ options.num_workers = 1
    /\ \E w \in Ids : pc[w] = "done" /\ pc[1 - w] = "sleep"
    /\ \E j \in Jobs : performed[j] = 1

\* C16. Idle convergence, for every retry_threshold: if from some point on a worker's
\* loop keeps running by a queue that stays empty, then from some point on the worker is
\* Cold for ever and is either sleeping or at the steal attempt that follows the sleep.
C16_IdleConverges ==
    \A w \in Ids :
        <>[](Live(w) /\ top = Len(log))
            => <>[](load[w] = "Cold" /\ pc[w] \in {"sleep", "steal"})

\* with the largest threshold, a worker that performed a job has since failed
\* threshold + 1 steals in a row by an empty queue, is Cold and sleeps
C16_Witness ==
    \E w \in Ids :
        /\ Threshold = MaxThreshold
        /\ top = Len(log)
        /\ \E j \in Jobs : performed[j] = 1
        /\ pc[w] = "sleep"
        /\ load[w] = "Cold"
        /\ retries[w] = Threshold
        /\ streak[w] > Threshold

\* C17. In every reachable state and for every retry_threshold t, each worker has
\* 0 <= retries <= t, retries < t when Warm and retries = t when Cold; so a worker that
\* leaves Hot with the counter a reheat left at t starts its Warm phase from 0.
C17_RetriesBound ==
    /\ [](\A w \in Ids :
            /\ retries[w] \in 0 .. Threshold
            /\ load[w] = "Warm" => retries[w] < Threshold
            /\ load[w] = "Cold" => retries[w] = Threshold)
    /\ [][\A w \in Ids :
            (load[w] = "Hot" /\ load[w]' = "Warm") => retries[w]' = 0]_vars

\* with the largest threshold, one worker is Warm one failure short of Cold and the
\* other was reheated from Cold by an Abort and is Hot with the counter still at t
C17_Witness ==
    \E w \in Ids :
        /\ Threshold = MaxThreshold
        /\ load[w] = "Warm"
        /\ retries[w] = Threshold - 1
        /\ load[1 - w] = "Hot"
        /\ retries[1 - w] = Threshold

\* the i-th message pushed is a job given before the first call of stop
BeforeStop(i) == \A h \in 1 .. i : log[h].kind = "Work"

\* C18. Messages are stolen in the order they were pushed: each successful steal takes
\* the oldest message still in the queue, a job to the worker that then holds it, a Stop
\* to a worker that breaks; so a Stop is never stolen while a job given before stop is
\* still in the queue, and once a worker has terminated every job given before stop
\* has been stolen.
C18_Order ==
    /\ [][top' # top =>
            /\ top' = top + 1
            /\ log' = log
            /\ \E w \in Ids :
                  IF log[top'].kind = "Work"
                  THEN /\ job'[w] = log[top'].job
                       /\ pc'[w] = "does"
                       /\ pc[w] # "does"
                       /\ obtained'[log[top'].job] = obtained[log[top'].job] + 1
                  ELSE /\ nstops'[w] = nstops[w] + 1
                       /\ pc'[w] = "done"]_vars
    /\ [][\A w \in Ids :
            nstops'[w] # nstops[w] =>
                \A i \in (top + 1) .. Len(log) : ~BeforeStop(i)]_vars
    /\ []((\E w \in Ids : pc[w] = "done") =>
            \A i \in 1 .. Len(log) :
                BeforeStop(i) => (i <= top /\ obtained[log[i].job] >= 1))

\* two jobs were given before stop; a worker has broken on the first Stop while the
\* other worker still holds the second of the jobs
C18_Witness ==
    /\ NumWork(log) = 2
    /\ BeforeStop(2)
    /\ \E w \in Ids :
          /\ pc[w] = "done"
          /\ pc[1 - w] = "does"
          /\ job[1 - w] = log[2].job
          /\ performed[log[2].job] = 0

\* the workers whose thread was started
Started == {w \in Ids : pc[w] \notin {"unhired", "hired"}}

\* the i-th message pushed is a job given after a call of stop
AfterStop(i) == log[i].kind = "Work" /\ \E h \in 1 .. i : log[h].kind = "Stop"

\* C19. A worker that has stolen a Stop has terminated and takes no further step: no
\* steal attempt, no change of its load or retries. So when no more than num_workers
\* workers were ever started (in particular with exactly num_workers live workers), a
\* job given after stop is pushed onto the queue like any other but is never stolen or
\* performed; and once every started worker has terminated, nothing leaves the queue
\* and nothing is performed unless another worker is started.
C19_AfterStop ==
    /\ [](\A w \in Ids : nstops[w] >= 1 <=> pc[w] = "done")
    /\ [][\A w \in Ids : nstops[w] >= 1 => Local(w)' = Local(w)]_vars
    /\ [][(stopCalls >= 1 /\ NumWork(log') # NumWork(log)) =>
            /\ \E j \in Jobs : ~Given(j) /\ log' = Append(log, Work(j))
            /\ \E h \in 1 .. Len(log) : log[h].kind = "Stop"
            /\ top' = top]_vars
    /\ [](Cardinality(Started) <= options.num_workers =>
            \A i \in 1 .. Len(log) :
                AfterStop(i) =>
                    /\ i > top
                    /\ obtained[log[i].job] = 0
                    /\ performed[log[i].job] = 0)
    /\ [][((\A w \in Started : pc[w] = "done") /\ Started' = Started) =>
            /\ top' = top
            /\ SubSeq(log', 1, Len(log)) = log
            /\ performed' = performed]_vars

\* num_workers workers ran and each has broken on a Stop; the one job given before stop
\* was performed, the one given after it is the only message left in the queue
C19_Witness ==
    /\ Cardinality(Started) = options.num_workers
    /\ \A w \in Started : pc[w] = "done"
    /\ Len(log) = top + 1
    /\ AfterStop(Len(log))
    /\ performed[log[Len(log)].job] = 0
    /\ BeforeStop(1)
    /\ performed[log[1].job] = 1
====
